---- MODULE Spec2Model ----
(***************************************************************************)
(* Blog module of the Digicides site: the data-access layer over the       *)
(* hosted tables blogs, blog_likes and blog_comments (lib/blog-storage,    *)
(* lib/blog-server), the two post-detail pages and the client component   *)
(* BlogPostClient: its load of related posts and comments, its like button *)
(* and its comment form.                                                   *)
(*                                                                         *)
(* A backend call (one awaited supabase query) answers in one of three     *)
(* modes: "ok", "error" (the {data, error} result carries an error) or     *)
(* "throw" (the awaited promise rejects).  JavaScript values that are not  *)
(* rows or lists are records with a type field.                            *)
(***************************************************************************)
EXTENDS Integers, Sequences, FiniteSets, TLC

VARIABLES
    blogs,          \* table blogs: a set of rows
    blog_likes,     \* table blog_likes: <<blog_id, user_fingerprint>> -> number of rows
    blog_comments,  \* table blog_comments: a set of rows
    ret,            \* the last call, query or event: its name, arguments, modes and result
    hist,           \* the toggleLike calls run back to back, oldest first
    page,           \* outcome of the last post-detail page request
    client,         \* view state of the BlogPostClient instance
    inflight        \* the backend calls awaited at the moment, in the order of their start

vars == <<blogs, blog_likes, blog_comments, ret, hist, page, client, inflight>>

(***************************************************************************)
(* Bounds of the model.                                                    *)
(***************************************************************************)
MaxPosts == 2
MaxRelPosts == 5
MaxLikeRows == 4
MaxComments == 2
MaxInflight == 3
MaxEdits == 2

\* ids the callers of the interaction store pass (the store does not check them)
PostIds == {1, 2}
SlugOfId == <<"a", "A", "b", "c", "d", "e", "f", "g">>
Slugs == {"a", "A", "b"}
Statuses == {"draft", "published"}
Fingerprints == {"fp_1", "fp_2"}
Modes == {"ok", "error", "throw"}

(***************************************************************************)
(* JavaScript values.                                                      *)
(***************************************************************************)
Null == [type |-> "null"]
Undefined == [type |-> "undefined"]
JsBool(b) == [type |-> "boolean", value |-> b]
JsNum(n) == [type |-> "number", value |-> n]
\* an exception leaving a function towards its caller
Exception == [type |-> "exception"]

\* no call made yet
NoCall == [op |-> "none", by |-> "none", args |-> <<>>, modes |-> <<>>, result |-> Undefined]
NoPage == [route |-> "none", slug |-> "", outcome |-> "none", blog |-> Null]
NoClient == [mounted |-> FALSE, blog |-> Null, allBlogs |-> <<>>, relatedBlogs |-> <<>>,
             comments |-> <<>>, isLoading |-> TRUE,
             hasLiked |-> JsBool(FALSE), likesCount |-> JsNum(0), isLiking |-> FALSE,
             fingerprint |-> "", likeStatusDeps |-> <<>>,
             commentName |-> <<>>, commentEmail |-> <<>>, commentContent |-> <<>>,
             isSubmitting |-> FALSE, commentMessage |-> Null]

Call(op, by, args, modes, result) ==
    [op |-> op, by |-> by, args |-> args, modes |-> modes, result |-> result]

(***************************************************************************)
(* The query builder: .single() and .order('created_at', desc).            *)
(***************************************************************************)
\* .single(): the one selected row, an error for zero or several rows
single(rows, mode) ==
    IF mode = "ok" /\ Cardinality(rows) = 1
    THEN [data |-> CHOOSE r \in rows : TRUE, error |-> FALSE]
    ELSE [data |-> Null, error |-> TRUE]

RECURSIVE orderDesc(_)
\* .order('created_at', { ascending: false }): newest first
orderDesc(rows) ==
    IF rows = {} THEN <<>>
    ELSE LET newest == CHOOSE r \in rows : \A q \in rows : q.created_at <= r.created_at
         IN <<newest>> \o orderDesc(rows \ {newest})

\* a select of several rows, ordered
selectOrdered(rows, mode) ==
    IF mode = "ok" THEN [data |-> orderDesc(rows), error |-> FALSE]
    ELSE [data |-> Null, error |-> TRUE]

(***************************************************************************)
(* Strings (comment form, post content), kept as runs of one character:    *)
(* <<[ch |-> "h", n |-> 5]>> is a string of five characters.  A run of     *)
(* Word is the two characters 'w', ' ' over and over: n words.             *)
(***************************************************************************)
Run(ch, n) == [ch |-> ch, n |-> n]
Word == "w "
width(ch) == IF ch = Word THEN 2 ELSE 1
EmptyStr == <<>>
MaxCommentLength == 1000
WordsPerMinute == 200

RECURSIVE length(_)
length(s) == IF s = <<>> THEN 0 ELSE Head(s).n * width(Head(s).ch) + length(Tail(s))

RECURSIVE trimStart(_)
trimStart(s) == IF s # <<>> /\ Head(s).ch = " " THEN trimStart(Tail(s)) ELSE s

RECURSIVE trimEnd(_)
trimEnd(s) ==
    IF s # <<>> /\ s[Len(s)].ch = " " THEN trimEnd(SubSeq(s, 1, Len(s) - 1))
    ELSE IF s # <<>> /\ s[Len(s)].ch = Word
    THEN SubSeq(s, 1, Len(s) - 1) \o <<Run(Word, s[Len(s)].n - 1), Run("w", 1)>>
    ELSE s

\* String.prototype.trim
trim(s) == trimEnd(trimStart(s))

\* the strings the actions are tried with
Hello == <<Run("h", 5)>>
Blank == <<Run(" ", 1)>>
TooLong == <<Run("x", MaxCommentLength + 1)>>
Email == <<Run("e", 3)>>
Name == <<Run("n", 4)>>
PaddedName == <<Run(" ", 1), Run("n", 4), Run(" ", 2)>>
\* <p>w  w</p><  (two words, two tags, a '<' that opens no tag)
Html == <<Run("<", 1), Run("p", 1), Run(">", 1), Run("w", 1), Run(" ", 2), Run("w", 1),
          Run("<", 1), Run("/", 1), Run("p", 1), Run(">", 1), Run("<", 1)>>
\* 201 words of one letter, a blank after each
LongRead == <<Run(Word, WordsPerMinute + 1)>>

(***************************************************************************)
(* calculateReadingStats.                                                  *)
(***************************************************************************)
\* the place of the first '>' of s, 0 when s has none
RECURSIVE firstClose(_, _)
firstClose(s, i) ==
    IF i > Len(s) THEN 0
    ELSE IF s[i].ch = ">" THEN i
    ELSE firstClose(s, i + 1)

\* content.replace(/<[^>]*>/g, ''): each '<' up to the next '>' is removed;
\* a '<' with no '>' after it stays, and so does everything after it
RECURSIVE stripTags(_)
stripTags(s) ==
    IF s = <<>> THEN <<>>
    ELSE IF Head(s).ch = "<"
    THEN LET j == firstClose(s, 2)
         IN IF j = 0 THEN s
            ELSE stripTags((IF s[j].n > 1 THEN <<Run(">", s[j].n - 1)>> ELSE <<>>)
                              \o SubSeq(s, j + 1, Len(s)))
    ELSE <<Head(s)>> \o stripTags(Tail(s))

\* text.split(/\s+/).filter(Boolean).length: the maximal runs of non-blank characters
RECURSIVE countWords(_, _)
countWords(s, inWord) ==
    IF s = <<>> THEN 0
    ELSE IF Head(s).n = 0 THEN countWords(Tail(s), inWord)
    ELSE IF Head(s).ch = " " THEN countWords(Tail(s), FALSE)
    ELSE IF Head(s).ch = Word
    THEN Head(s).n - (IF inWord THEN 1 ELSE 0) + countWords(Tail(s), FALSE)
    ELSE (IF inWord THEN 0 ELSE 1) + countWords(Tail(s), TRUE)

\* Math.ceil(a / b) for a >= 0, b > 0
ceilDiv(a, b) == (a + b - 1) \div b

Math_max(a, b) == IF a >= b THEN a ELSE b

calculateReadingStats(content) ==
    LET wordCount == countWords(stripTags(content), FALSE)
    IN [wordCount |-> wordCount, readingTime |-> Math_max(1, ceilDiv(wordCount, WordsPerMinute))]

(***************************************************************************)
(* Content reader.                                                         *)
(***************************************************************************)
getBlogBySlug_NoStatusFilter(slug, mode) ==
    IF mode = "throw" THEN Null
    ELSE LET r == single({b \in blogs : b.slug = slug}, mode)
         IN IF r.error THEN Null ELSE r.data

getBlogBySlug(slug, mode) ==
    IF mode = "throw" THEN Null
    ELSE LET r == single({b \in blogs : b.slug = slug /\ b.status = "published"}, mode)
         IN IF r.error THEN Null ELSE r.data

mapDbToBlog(row) ==
    [id |-> row.id, slug |-> row.slug, status |-> row.status,
     category |-> row.category, tags |-> row.tags,
     content |-> row.content, wordCount |-> row.word_count,
     readingTime |-> row.reading_time,
     likesCount |-> IF row.likes_count = 0 THEN 0 ELSE row.likes_count,
     createdAt |-> row.created_at, updatedAt |-> row.updated_at]

fetchBlogServer(slug, mode) ==
    IF mode = "throw" THEN Null
    ELSE LET r == single({b \in blogs : b.slug = slug /\ b.status = "published"}, mode)
         IN IF r.error \/ r.data = Null THEN Null ELSE mapDbToBlog(r.data)

getAllPublishedBlogs(mode) ==
    IF mode = "throw" THEN <<>>
    ELSE LET r == selectOrdered({b \in blogs : b.status = "published"}, mode)
         IN IF r.error THEN <<>> ELSE r.data

\* the row the table gives a new post: id, created_at and updated_at come
\* from the table, the reading stats from createBlog
NewBlogRow(data) ==
    [id |-> Cardinality(blogs) + 1, slug |-> data.slug, status |-> data.status,
     category |-> data.category, tags |-> data.tags, likes_count |-> 0,
     content |-> data.content,
     word_count |-> calculateReadingStats(data.content).wordCount,
     reading_time |-> calculateReadingStats(data.content).readingTime,
     created_at |-> 100 + Cardinality(blogs),
     updated_at |-> 0]

createBlog(data, mode) ==
    IF mode = "ok" THEN [result |-> NewBlogRow(data), blogs |-> blogs \cup {NewBlogRow(data)}]
    ELSE [result |-> Null, blogs |-> blogs]

\* the row after .update(updateData): the columns updateData names are
\* replaced; updated_at counts the edits of the row
\* updateData is data with updated_at, and with the stats when data.content is
\* truthy (a string that is not empty)
updatedRow(row, data) ==
    LET hasContent == "content" \in DOMAIN data
        recalc == IF hasContent THEN data.content # EmptyStr ELSE FALSE
    IN [row EXCEPT !.content = IF hasContent THEN data.content ELSE @,
                   !.status = IF "status" \in DOMAIN data THEN data.status ELSE @,
                   !.word_count = IF recalc
                                  THEN calculateReadingStats(data.content).wordCount ELSE @,
                   !.reading_time = IF recalc
                                    THEN calculateReadingStats(data.content).readingTime ELSE @,
                   !.updated_at = @ + 1]

\* .update(updateData).eq('id', id).select().single()
updateBlog(id, data, mode) ==
    IF mode # "ok" THEN [result |-> Null, blogs |-> blogs]
    ELSE LET rows == {b \in blogs : b.id = id}
             updated == {updatedRow(b, data) : b \in rows}
             r == single(updated, mode)
         IN [result |-> IF r.error THEN Null ELSE r.data,
             blogs |-> (blogs \ rows) \cup updated]


(***************************************************************************)
(* Interaction store: likes.                                               *)
(***************************************************************************)
\* the rows of blog_likes selected by .eq('blog_id').eq('user_fingerprint')
likeRows(blogId, fingerprint) ==
    {[blog_id |-> blogId, user_fingerprint |-> fingerprint, id |-> i] :
        i \in 1..blog_likes[<<blogId, fingerprint>>]}

toggleLike(blogId, fingerprint, readMode, writeMode) ==
    IF readMode = "throw" THEN [result |-> JsBool(FALSE), likes |-> blog_likes]
    ELSE LET existing == single(likeRows(blogId, fingerprint), readMode).data
             k == <<blogId, fingerprint>>
         IN IF existing # Null
            THEN \* unlike: delete every row of the pair
                 IF writeMode = "ok"
                 THEN [result |-> JsBool(TRUE), likes |-> [blog_likes EXCEPT ![k] = 0]]
                 ELSE [result |-> JsBool(FALSE), likes |-> blog_likes]
            ELSE \* like: insert one row
                 IF writeMode = "ok"
                 THEN [result |-> JsBool(TRUE), likes |-> [blog_likes EXCEPT ![k] = @ + 1]]
                 ELSE [result |-> JsBool(FALSE), likes |-> blog_likes]

checkLikeStatus(blogId, fingerprint, mode) ==
    IF mode = "throw" THEN JsBool(FALSE)
    ELSE JsBool(single(likeRows(blogId, fingerprint), mode).data # Null)

\* whether the pair is liked, and the number of Like rows of a post
Liked(likes, blogId, fingerprint) == likes[<<blogId, fingerprint>>] > 0

RECURSIVE SumRows(_, _, _)
SumRows(likes, blogId, fps) ==
    IF fps = {} THEN 0
    ELSE LET f == CHOOSE x \in fps : TRUE
         IN likes[<<blogId, f>>] + SumRows(likes, blogId, fps \ {f})

LikeRowCount(likes, blogId) == SumRows(likes, blogId, Fingerprints)

ToggleLike(ids, fps) ==
    /\ \E b \in ids, f \in fps, rm \in Modes, wm \in Modes :
         LET r == toggleLike(b, f, rm, wm)
             e == [blog_id |-> b, user_fingerprint |-> f, ok |-> rm = "ok" /\ wm = "ok",
                   liked |-> Liked(blog_likes, b, f), count |-> LikeRowCount(blog_likes, b)]
             sameCall == hist # <<>> /\ hist[Len(hist)].blog_id = b
                           /\ hist[Len(hist)].user_fingerprint = f
         IN /\ r.likes[<<b, f>>] <= MaxLikeRows
            /\ blog_likes' = r.likes
            /\ ret' = Call("toggleLike", "direct", <<b, f>>, <<rm, wm>>, r.result)
            /\ hist' = IF sameCall THEN <<hist[Len(hist)], e>> ELSE <<e>>
    /\ UNCHANGED <<inflight, blogs, blog_comments, page, client>>

CheckLikeStatus(ids, fps) ==
    /\ \E b \in ids, f \in fps, mode \in Modes :
         ret' = Call("checkLikeStatus", "direct", <<b, f>>, <<mode>>, checkLikeStatus(b, f, mode))
    /\ hist' = <<>>
    /\ UNCHANGED <<inflight, blogs, blog_likes, blog_comments, page, client>>

(***************************************************************************)
(* Interaction store: comments.                                            *)
(***************************************************************************)
NewCommentRow_Approved(blogId, userName, userEmail, content) ==
    [id |-> Cardinality(blog_comments) + 1, blog_id |-> blogId, user_name |-> userName,
     user_email |-> userEmail, content |-> content, status |-> "approved",
     created_at |-> 200 + Cardinality(blog_comments)]

NewCommentRow(blogId, userName, userEmail, content) ==
    [id |-> Cardinality(blog_comments) + 1, blog_id |-> blogId, user_name |-> userName,
     user_email |-> userEmail, content |-> content, status |-> "pending",
     created_at |-> 200 + Cardinality(blog_comments)]

submitComment(blogId, userName, userEmail, content, mode) ==
    IF mode = "ok"
    THEN LET row == NewCommentRow(blogId, userName, userEmail, content)
         IN [result |-> row, comments |-> blog_comments \cup {row}]
    ELSE [result |-> Null, comments |-> blog_comments]

fetchComments_NoStatusFilter(blogId, mode) ==
    IF mode = "throw" THEN <<>>
    ELSE LET r == selectOrdered({c \in blog_comments : c.blog_id = blogId}, mode)
         IN IF r.error THEN <<>> ELSE r.data

fetchComments(blogId, mode) ==
    IF mode = "throw" THEN <<>>
    ELSE LET r == selectOrdered({c \in blog_comments :
                                   c.blog_id = blogId /\ c.status = "approved"}, mode)
         IN IF r.error THEN <<>> ELSE r.data

SubmitComment(ids, names, emails, contents) ==
    /\ Cardinality(blog_comments) < MaxComments
    /\ \E b \in ids, n \in names, e \in emails, c \in contents, mode \in Modes :
         LET r == submitComment(b, n, e, c, mode)
         IN /\ blog_comments' = r.comments
            /\ ret' = Call("submitComment", "direct", <<b, n, e, c>>, <<mode>>, r.result)
    /\ hist' = <<>>
    /\ UNCHANGED <<inflight, blogs, blog_likes, page, client>>

FetchComments(ids) ==
    /\ \E b \in ids, mode \in Modes :
         ret' = Call("fetchComments", "direct", <<b>>, <<mode>>, fetchComments(b, mode))
    /\ hist' = <<>>
    /\ UNCHANGED <<inflight, blogs, blog_likes, blog_comments, page, client>>

\* the moderator, outside the module, approves or rejects a pending comment
Moderate ==
    /\ \E c \in blog_comments, st \in {"approved", "rejected"} :
         /\ c.status = "pending"
         /\ blog_comments' = (blog_comments \ {c}) \cup {[c EXCEPT !.status = st]}
         /\ ret' = Call("moderate", "moderator", <<c.id, st>>, <<"ok">>, Undefined)
    /\ hist' = <<>>
    /\ UNCHANGED <<inflight, blogs, blog_likes, page, client>>

(***************************************************************************)
(* BlogPostClient: construction by the page, and the load of related posts *)
(* and comments on mount.                                                  *)
(***************************************************************************)
RelatedLimit == 3

isRelated(b, blog) ==
    /\ b.id # blog.id
    /\ \/ b.category = blog.category
       \/ \E tag \in b.tags : tag \in blog.tags

\* allBlogs.filter(b => isRelated(b, blog)): the kept elements, in list order
RECURSIVE filterRelated(_, _)
filterRelated(list, blog) ==
    IF list = <<>> THEN <<>>
    ELSE (IF isRelated(Head(list), blog) THEN <<Head(list)>> ELSE <<>>)
            \o filterRelated(Tail(list), blog)

\* Array.prototype.slice(0, n)
slice0(list, n) == SubSeq(list, 1, IF Len(list) < n THEN Len(list) ELSE n)

relatedBlogs_NoLimit(blog, allBlogs) == filterRelated(allBlogs, blog)

relatedBlogs(blog, allBlogs) == slice0(filterRelated(allBlogs, blog), RelatedLimit)

\* useState initial values of a BlogPostClient rendered with initialBlog
NewClient(initialBlog) ==
    [mounted |-> TRUE, blog |-> initialBlog, allBlogs |-> <<>>, relatedBlogs |-> <<>>,
     comments |-> <<>>, isLoading |-> TRUE,
     hasLiked |-> JsBool(FALSE),
     likesCount |-> JsNum(IF initialBlog.likesCount = 0 THEN 0 ELSE initialBlog.likesCount),
     isLiking |-> FALSE,
     fingerprint |-> "",
     \* the [fingerprint] the like-status effect last ran for; <<>> before its first run
     likeStatusDeps |-> <<>>,
     commentName |-> EmptyStr, commentEmail |-> EmptyStr, commentContent |-> EmptyStr,
     isSubmitting |-> FALSE, commentMessage |-> Null]

loadAdditionalData(blogsMode, commentsMode) ==
    LET allBlogs == getAllPublishedBlogs(blogsMode)
        blogComments == fetchComments(client.blog.id, commentsMode)
    IN [client EXCEPT !.allBlogs = allBlogs,
                      !.relatedBlogs = relatedBlogs(client.blog, allBlogs),
                      !.comments = blogComments,
                      !.isLoading = FALSE]

LoadAdditionalData ==
    /\ client.mounted
    /\ client.isLoading
    /\ \E bm \in Modes, cm \in Modes :
         /\ client' = loadAdditionalData(bm, cm)
         /\ ret' = Call("fetchComments", "BlogPostClient", <<client.blog.id>>, <<cm>>,
                        fetchComments(client.blog.id, cm))
    /\ hist' = <<>>
    /\ UNCHANGED <<inflight, blogs, blog_likes, blog_comments, page>>

(***************************************************************************)
(* Backend calls in flight.  A call is awaited by the BlogPostClient       *)
(* instance on the page ("client") or by another caller ("other": another  *)
(* tab or visitor, or an instance that has been replaced by a new page).   *)
(***************************************************************************)
InFlight(owner, op, args, step) ==
    [owner |-> owner, op |-> op, args |-> args, step |-> step,
     existing |-> Undefined, result |-> Undefined]

\* the list without its i-th element
RemoveAt(list, i) == SubSeq(list, 1, i - 1) \o SubSeq(list, i + 1, Len(list))

\* the calls of a replaced instance go on; their continuations reach no view
Abandon(calls) == [i \in 1..Len(calls) |-> [calls[i] EXCEPT !.owner = "other"]]

\* the calls of the instance that are awaited
ClientCalls(op) == {i \in 1..Len(inflight) : inflight[i].owner = "client" /\ inflight[i].op = op}

(***************************************************************************)
(* toggleLike as the backend sees it: the existence select and the insert  *)
(* or delete are two awaited queries, and other calls run between them.    *)
(***************************************************************************)
\* the select('id') ... .single() of toggleLike; its error is not looked at
toggleLikeRead(call, mode) ==
    IF mode = "throw" THEN [call EXCEPT !.step = "resolved", !.result = JsBool(FALSE)]
    ELSE [call EXCEPT !.step = "write",
                      !.existing = single(likeRows(call.args[1], call.args[2]), mode).data]

\* the delete (a row was read) or the insert (none was read), and return !error
toggleLikeWrite(call, mode) ==
    LET k == <<call.args[1], call.args[2]>>
        likes == IF mode # "ok" THEN blog_likes
                 ELSE IF call.existing # Null THEN [blog_likes EXCEPT ![k] = 0]
                 ELSE [blog_likes EXCEPT ![k] = @ + 1]
    IN [call |-> [call EXCEPT !.step = "resolved", !.result = JsBool(mode = "ok")],
        likes |-> likes]

\* another tab or visitor calls toggleLike
ToggleLikeStart(ids, fps) ==
    /\ Len(inflight) < MaxInflight
    /\ \E b \in ids, f \in fps :
         /\ inflight' = Append(inflight, InFlight("other", "toggleLike", <<b, f>>, "read"))
         /\ ret' = Call("toggleLike", "other", <<b, f>>, <<>>, Undefined)
    /\ hist' = <<>>
    /\ UNCHANGED <<blogs, blog_likes, blog_comments, page, client>>

ToggleLikeRead ==
    /\ \E i \in 1..Len(inflight), mode \in Modes :
         /\ inflight[i].op = "toggleLike"
         /\ inflight[i].step = "read"
         /\ inflight' = [inflight EXCEPT ![i] = toggleLikeRead(inflight[i], mode)]
         /\ ret' = Call("select blog_likes", inflight[i].owner, inflight[i].args, <<mode>>,
                        Undefined)
    /\ hist' = <<>>
    /\ UNCHANGED <<blogs, blog_likes, blog_comments, page, client>>

ToggleLikeWrite ==
    /\ \E i \in 1..Len(inflight), mode \in Modes :
         LET r == toggleLikeWrite(inflight[i], mode)
         IN /\ inflight[i].op = "toggleLike"
            /\ inflight[i].step = "write"
            /\ \A k \in DOMAIN r.likes : r.likes[k] <= MaxLikeRows
            /\ blog_likes' = r.likes
            /\ inflight' = [inflight EXCEPT ![i] = r.call]
            /\ ret' = Call("write blog_likes", inflight[i].owner, inflight[i].args, <<mode>>,
                           Undefined)
    /\ hist' = <<>>
    /\ UNCHANGED <<blogs, blog_comments, page, client>>

\* the promise of a call of another caller resolves
ReturnToOther ==
    /\ \E i \in 1..Len(inflight) :
         /\ inflight[i].owner = "other"
         /\ inflight[i].step = "resolved"
         /\ ret' = Call(inflight[i].op, "other", inflight[i].args, <<>>, inflight[i].result)
         /\ inflight' = RemoveAt(inflight, i)
    /\ hist' = <<>>
    /\ UNCHANGED <<blogs, blog_likes, blog_comments, page, client>>

(***************************************************************************)
(* BlogPostClient: fingerprint, like status and the like button.           *)
(***************************************************************************)
\* v.name in JavaScript: a TypeError on null and undefined, undefined on a
\* primitive and on an object without the property
prop(v, name) ==
    IF v = Null \/ v = Undefined THEN Exception
    ELSE IF "type" \in DOMAIN v THEN Undefined
    ELSE IF name \in DOMAIN v THEN v[name]
    ELSE Undefined

\* useEffect(() => setFingerprint(generateFingerprint()), []): once, on mount
DeriveFingerprint(fps) ==
    /\ client.mounted
    /\ client.fingerprint = ""
    /\ \E fp \in fps :
         /\ client' = [client EXCEPT !.fingerprint = fp]
         /\ ret' = Call("generateFingerprint", "BlogPostClient", <<>>, <<>>, fp)
    /\ hist' = <<>>
    /\ UNCHANGED <<blogs, blog_likes, blog_comments, page, inflight>>

likeStatusEffect_NoGuard(c) ==
    [client |-> [c EXCEPT !.likeStatusDeps = <<c.fingerprint>>],
     calls |-> <<InFlight("client", "checkLikeStatus", <<c.blog.id, c.fingerprint>>, "read")>>]

\* the like-status effect: it asks the store only with a post and a fingerprint
likeStatusEffect(c) ==
    [client |-> [c EXCEPT !.likeStatusDeps = <<c.fingerprint>>],
     calls |-> IF c.blog # Null /\ c.fingerprint # ""
               THEN <<InFlight("client", "checkLikeStatus", <<c.blog.id, c.fingerprint>>, "read")>>
               ELSE <<>>]

\* the effect runs after the first render and after each change of fingerprint
LikeStatusEffect ==
    /\ client.mounted
    /\ client.likeStatusDeps # <<client.fingerprint>>
    /\ LET r == likeStatusEffect(client)
       IN /\ Len(inflight) + Len(r.calls) <= MaxInflight
          /\ client' = r.client
          /\ inflight' = inflight \o r.calls
    /\ ret' = Call("likeStatusEffect", "BlogPostClient", <<client.fingerprint>>, <<>>, Undefined)
    /\ hist' = <<>>
    /\ UNCHANGED <<blogs, blog_likes, blog_comments, page>>

\* the one query of checkLikeStatus
CheckLikeStatusRead ==
    /\ \E i \in 1..Len(inflight), mode \in Modes :
         /\ inflight[i].op = "checkLikeStatus"
         /\ inflight[i].step = "read"
         /\ inflight' = [inflight EXCEPT ![i] =
                [inflight[i] EXCEPT
                    !.step = "resolved",
                    !.result = checkLikeStatus(inflight[i].args[1], inflight[i].args[2], mode)]]
         /\ ret' = Call("select blog_likes", inflight[i].owner, inflight[i].args, <<mode>>,
                        Undefined)
    /\ hist' = <<>>
    /\ UNCHANGED <<blogs, blog_likes, blog_comments, page, client>>

\* .then(({ hasLiked, likesCount }) => { setHasLiked(hasLiked); setLikesCount(likesCount); })
likeStatusThen(c, result) ==
    [c EXCEPT !.hasLiked = prop(result, "hasLiked"), !.likesCount = prop(result, "likesCount")]

LikeStatusThen ==
    /\ \E i \in ClientCalls("checkLikeStatus") :
         /\ inflight[i].step = "resolved"
         /\ client' = likeStatusThen(client, inflight[i].result)
         /\ ret' = Call("checkLikeStatus", "BlogPostClient", inflight[i].args, <<>>,
                        inflight[i].result)
         /\ inflight' = RemoveAt(inflight, i)
    /\ hist' = <<>>
    /\ UNCHANGED <<blogs, blog_likes, blog_comments, page>>

handleLike_NoFlag(c) ==
    IF c.blog = Null \/ c.fingerprint = ""
    THEN [client |-> c, calls |-> <<>>]
    ELSE [client |-> [c EXCEPT !.isLiking = TRUE],
          calls |-> <<InFlight("client", "toggleLike", <<c.blog.id, c.fingerprint>>, "read")>>]

\* handleLike up to its await
handleLike(c) ==
    IF c.blog = Null \/ c.fingerprint = "" \/ c.isLiking
    THEN [client |-> c, calls |-> <<>>]
    ELSE [client |-> [c EXCEPT !.isLiking = TRUE],
          calls |-> <<InFlight("client", "toggleLike", <<c.blog.id, c.fingerprint>>, "read")>>]

\* a click on the like button
HandleLike ==
    /\ client.mounted
    /\ LET r == handleLike(client)
       IN /\ Len(inflight) + Len(r.calls) <= MaxInflight
          /\ client' = r.client
          /\ inflight' = inflight \o r.calls
    /\ ret' = Call("handleLike", "visitor", <<>>, <<>>, Undefined)
    /\ hist' = <<>>
    /\ UNCHANGED <<blogs, blog_likes, blog_comments, page>>

\* handleLike after its await: result.hasLiked, result.likesCount, setIsLiking(false)
handleLikeResume(c, result) ==
    IF prop(result, "hasLiked") = Exception THEN c
    ELSE [c EXCEPT !.hasLiked = prop(result, "hasLiked"),
                   !.likesCount = prop(result, "likesCount"),
                   !.isLiking = FALSE]

HandleLikeResume ==
    /\ \E i \in ClientCalls("toggleLike") :
         /\ inflight[i].step = "resolved"
         /\ client' = handleLikeResume(client, inflight[i].result)
         /\ ret' = Call("toggleLike", "BlogPostClient", inflight[i].args, <<>>,
                        inflight[i].result)
         /\ inflight' = RemoveAt(inflight, i)
    /\ hist' = <<>>
    /\ UNCHANGED <<blogs, blog_likes, blog_comments, page>>

(***************************************************************************)
(* BlogPostClient: the comment form.                                       *)
(***************************************************************************)
\* onChange of the three inputs; they stay editable while a submission is pending
SetCommentName(names) ==
    /\ client.mounted
    /\ \E n \in names :
         /\ client' = [client EXCEPT !.commentName = n]
         /\ ret' = Call("setCommentName", "visitor", <<n>>, <<>>, Undefined)
    /\ hist' = <<>>
    /\ UNCHANGED <<blogs, blog_likes, blog_comments, page, inflight>>

SetCommentEmail(emails) ==
    /\ client.mounted
    /\ \E e \in emails :
         /\ client' = [client EXCEPT !.commentEmail = e]
         /\ ret' = Call("setCommentEmail", "visitor", <<e>>, <<>>, Undefined)
    /\ hist' = <<>>
    /\ UNCHANGED <<blogs, blog_likes, blog_comments, page, inflight>>

SetCommentContent(contents) ==
    /\ client.mounted
    /\ \E c \in contents :
         /\ client' = [client EXCEPT !.commentContent = c]
         /\ ret' = Call("setCommentContent", "visitor", <<c>>, <<>>, Undefined)
    /\ hist' = <<>>
    /\ UNCHANGED <<blogs, blog_likes, blog_comments, page, inflight>>

\* undefined where a string is expected: no characters, and not the string ''
UndefinedStr == <<Run("undefined", 0)>>

\* x || undefined for a string x
orUndefined(x) == IF x = EmptyStr THEN UndefinedStr ELSE x

\* handleCommentSubmit up to its await; the call passes, in this order,
\* blog.id, the name, the comment text, the email
handleCommentSubmit(c) ==
    IF c.blog = Null \/ c.isSubmitting
    THEN [client |-> c, calls |-> <<>>]
    ELSE IF trim(c.commentName) = EmptyStr \/ trim(c.commentContent) = EmptyStr
    THEN [client |-> [c EXCEPT !.commentMessage =
                         [type |-> "error", text |-> "Name and comment are required"]],
          calls |-> <<>>]
    ELSE [client |-> [c EXCEPT !.isSubmitting = TRUE, !.commentMessage = Null],
          calls |-> <<InFlight("client", "submitComment",
                               <<c.blog.id, trim(c.commentName), trim(c.commentContent),
                                 orUndefined(trim(c.commentEmail))>>, "insert")>>]

HandleCommentSubmit ==
    /\ client.mounted
    /\ LET r == handleCommentSubmit(client)
       IN /\ Len(inflight) + Len(r.calls) <= MaxInflight
          /\ client' = r.client
          /\ inflight' = inflight \o r.calls
    /\ ret' = Call("handleCommentSubmit", "visitor", <<>>, <<>>, Undefined)
    /\ hist' = <<>>
    /\ UNCHANGED <<blogs, blog_likes, blog_comments, page>>

\* the insert of submitComment; its parameters are, in this order,
\* blogId, userName, userEmail, content
SubmitCommentInsert ==
    /\ \E i \in 1..Len(inflight), mode \in Modes :
         LET a == inflight[i].args
             r == submitComment(a[1], a[2], a[3], a[4], mode)
         IN /\ inflight[i].op = "submitComment"
            /\ inflight[i].step = "insert"
            /\ mode = "ok" => Cardinality(blog_comments) < MaxComments
            /\ blog_comments' = r.comments
            /\ inflight' = [inflight EXCEPT ![i] =
                   [inflight[i] EXCEPT !.step = "resolved", !.result = r.result]]
            /\ ret' = Call("submitComment", inflight[i].owner, a, <<mode>>, r.result)
    /\ hist' = <<>>
    /\ UNCHANGED <<blogs, blog_likes, page, client>>

\* a value that is not a string or a number, in a condition
truthy(v) == v # Undefined /\ v # Null /\ v # JsBool(FALSE)

\* handleCommentSubmit after its await; a TypeError on result.success leaves
\* the handler, nothing catches it
handleCommentSubmitResume(c, result) ==
    IF prop(result, "success") = Exception THEN c
    ELSE IF truthy(prop(result, "success"))
    THEN [c EXCEPT !.commentMessage = [type |-> "success", text |-> prop(result, "message")],
                   !.commentName = EmptyStr,
                   !.commentEmail = EmptyStr,
                   !.commentContent = EmptyStr,
                   !.isSubmitting = FALSE]
    ELSE [c EXCEPT !.commentMessage = [type |-> "error", text |-> prop(result, "message")],
                   !.isSubmitting = FALSE]

HandleCommentSubmitResume ==
    /\ \E i \in ClientCalls("submitComment") :
         /\ inflight[i].step = "resolved"
         /\ client' = handleCommentSubmitResume(client, inflight[i].result)
         /\ ret' = Call("handleCommentSubmit", "BlogPostClient", inflight[i].args, <<>>,
                        inflight[i].result)
         /\ inflight' = RemoveAt(inflight, i)
    /\ hist' = <<>>
    /\ UNCHANGED <<blogs, blog_likes, blog_comments, page>>

(***************************************************************************)
(* Actions of the content reader and of the two pages.                     *)
(***************************************************************************)
CreatePost(slugs, statuses, categories, tagsets, contents, max) ==
    /\ Cardinality(blogs) < max
    /\ \E s \in slugs, st \in statuses, c \in categories, t \in tagsets,
          text \in contents, mode \in Modes :
         LET data == [slug |-> s, status |-> st, category |-> c, tags |-> t,
                      content |-> text]
             r == createBlog(data, mode)
         IN /\ blogs' = r.blogs
            /\ ret' = Call("createBlog", "direct", <<s>>, <<mode>>, r.result)
    /\ hist' = <<>>
    /\ UNCHANGED <<inflight, blog_likes, blog_comments, page, client>>

\* createBlog with one content
CreateBlog(slugs, statuses, categories, tagsets, max) ==
    CreatePost(slugs, statuses, categories, tagsets, {Hello}, max)

UpdateBlog(ids, datas) ==
    /\ \E id \in ids, data \in datas, mode \in Modes :
         LET r == updateBlog(id, data, mode)
         IN /\ \A b \in r.blogs : b.updated_at <= MaxEdits
            /\ blogs' = r.blogs
            /\ ret' = Call("updateBlog", "direct", <<id, data>>, <<mode>>, r.result)
    /\ hist' = <<>>
    /\ UNCHANGED <<inflight, blog_likes, blog_comments, page, client>>

GetBlogBySlug(slugs) ==
    /\ \E s \in slugs, mode \in Modes :
         ret' = Call("getBlogBySlug", "direct", <<s>>, <<mode>>, getBlogBySlug(s, mode))
    /\ hist' = <<>>
    /\ UNCHANGED <<inflight, blogs, blog_likes, blog_comments, page, client>>

FetchBlogServer(slugs) ==
    /\ \E s \in slugs, mode \in Modes :
         ret' = Call("fetchBlogServer", "direct", <<s>>, <<mode>>, fetchBlogServer(s, mode))
    /\ hist' = <<>>
    /\ UNCHANGED <<inflight, blogs, blog_likes, blog_comments, page, client>>

GetAllPublishedBlogs ==
    /\ \E mode \in Modes :
         ret' = Call("getAllPublishedBlogs", "direct", <<>>, <<mode>>, getAllPublishedBlogs(mode))
    /\ hist' = <<>>
    /\ UNCHANGED <<inflight, blogs, blog_likes, blog_comments, page, client>>

\* app/blog/[slug]/page.tsx: notFound() unless a published post came back;
\* the catch block ends in notFound() too
BlogPostPageOutcome(blog) ==
    IF blog = Exception THEN [outcome |-> "notFound", blog |-> Null]
    ELSE IF blog = Null \/ blog.status # "published" THEN [outcome |-> "notFound", blog |-> Null]
    ELSE [outcome |-> "rendered", blog |-> blog]

BlogPostPage(slugs) ==
    /\ \E s \in slugs, mode \in Modes :
         LET blog == fetchBlogServer(s, mode)
             o == BlogPostPageOutcome(blog)
         IN /\ ret' = Call("fetchBlogServer", "BlogPostPage", <<s>>, <<mode>>, blog)
            /\ page' = [route |-> "blog/[slug]", slug |-> s,
                        outcome |-> o.outcome, blog |-> o.blog]
            /\ client' = IF o.outcome = "rendered" THEN NewClient(o.blog) ELSE NoClient
    /\ inflight' = Abandon(inflight)
    /\ hist' = <<>>
    /\ UNCHANGED <<blogs, blog_likes, blog_comments>>

BlogPostOutcome_NoNotFound(blog) ==
    IF blog = Exception THEN [outcome |-> "error", blog |-> Null]
    ELSE [outcome |-> "rendered", blog |-> blog]

\* app/services/digixblog/[slug]/page.tsx: notFound() when the lookup gave nothing
BlogPostOutcome(blog) ==
    IF blog = Exception THEN [outcome |-> "error", blog |-> Null]
    ELSE IF blog = Null THEN [outcome |-> "notFound", blog |-> Null]
    ELSE [outcome |-> "rendered", blog |-> blog]

BlogPost(slugs) ==
    /\ \E s \in slugs, mode \in Modes :
         LET blog == getBlogBySlug(s, mode)
             o == BlogPostOutcome(blog)
         IN /\ ret' = Call("getBlogBySlug", "BlogPost", <<s>>, <<mode>>, blog)
            /\ page' = [route |-> "services/digixblog/[slug]", slug |-> s,
                        outcome |-> o.outcome, blog |-> o.blog]
    /\ hist' = <<>>
    /\ UNCHANGED <<inflight, blogs, blog_likes, blog_comments, client>>

(***************************************************************************)
(* Specifications.                                                         *)
(***************************************************************************)
NoLikes == [k \in PostIds \X Fingerprints |-> 0]

Init ==
    /\ blogs = {}
    /\ blog_likes = NoLikes
    /\ blog_comments = {}
    /\ ret = NoCall
    /\ hist = <<>>
    /\ page = NoPage
    /\ client = NoClient
    /\ inflight = <<>>

\* the data-access layer as a whole
Next ==
    \/ CreateBlog({"a"}, Statuses, {"Marketing"}, {{"b2b"}}, MaxPosts)
    \/ GetBlogBySlug({"a", "b"})
    \/ FetchBlogServer({"a", "b"})
    \/ GetAllPublishedBlogs
    \/ ToggleLike({1}, {"fp_1"})
    \/ CheckLikeStatus({1}, {"fp_1"})
    \/ SubmitComment(PostIds, {Name}, {Email}, {Hello})
    \/ FetchComments(PostIds)
    \/ Moderate

Spec == Init /\ [][Next]_vars

\* the content reader and the two post-detail pages
NextContent ==
    \/ CreateBlog({"a", "A"}, Statuses, {"Marketing"}, {{"b2b"}}, MaxPosts)
    \/ GetBlogBySlug(Slugs)
    \/ FetchBlogServer(Slugs)
    \/ GetAllPublishedBlogs
    \/ BlogPostPage(Slugs)
    \/ BlogPost(Slugs)

SpecContent == Init /\ [][NextContent]_vars

\* likes
NextLikes ==
    \/ CreateBlog({"a"}, {"published"}, {"Marketing"}, {{"b2b"}}, 1)
    \/ ToggleLike({1}, Fingerprints)
    \/ CheckLikeStatus({1}, Fingerprints)

SpecLikes == Init /\ [][NextLikes]_vars

\* comment submission with every kind of input
NextComments ==
    \/ SubmitComment(PostIds, {EmptyStr, Name}, {Email}, {Blank, Hello, TooLong})
    \/ FetchComments(PostIds)
    \/ Moderate

SpecComments == Init /\ [][NextComments]_vars

\* the interaction store: likes and comments together, with the moderator
NextInteract ==
    \/ ToggleLike({1}, {"fp_1"})
    \/ CheckLikeStatus({1}, {"fp_1"})
    \/ SubmitComment(PostIds, {Name}, {Email}, {Hello})
    \/ FetchComments(PostIds)
    \/ Moderate

SpecInteract == Init /\ [][NextInteract]_vars

\* moderation and the comment list of the client
NextModeration ==
    \/ CreateBlog({"a"}, {"published"}, {"Marketing"}, {{"b2b"}}, 1)
    \/ BlogPostPage({"a"})
    \/ LoadAdditionalData
    \/ SubmitComment(PostIds, {Name}, {Email}, {Hello})
    \/ FetchComments(PostIds)
    \/ Moderate

SpecModeration == Init /\ [][NextModeration]_vars

\* related posts: the table is any table of at most MaxRelPosts posts, the
\* page of one of them is requested and its client loads the related posts
PostKinds ==
    {[category |-> "Marketing", tags |-> {"b2b"}, status |-> "published"],
     [category |-> "News", tags |-> {"b2b", "agri"}, status |-> "published"],
     [category |-> "News", tags |-> {"agri"}, status |-> "published"],
     [category |-> "Marketing", tags |-> {"b2b"}, status |-> "draft"]}

TableOf(kinds) ==
    {[id |-> i, slug |-> SlugOfId[i], status |-> kinds[i].status,
      category |-> kinds[i].category, tags |-> kinds[i].tags, likes_count |-> 0,
      content |-> Hello,
      word_count |-> calculateReadingStats(Hello).wordCount,
      reading_time |-> calculateReadingStats(Hello).readingTime,
      created_at |-> 100 + i - 1, updated_at |-> 0] : i \in DOMAIN kinds}

InitRelated ==
    /\ \E n \in 0..MaxRelPosts : \E kinds \in [1..n -> PostKinds] : blogs = TableOf(kinds)
    /\ blog_likes = NoLikes
    /\ blog_comments = {}
    /\ ret = NoCall
    /\ hist = <<>>
    /\ page = NoPage
    /\ client = NoClient
    /\ inflight = <<>>

NextRelated ==
    \/ BlogPostPage({SlugOfId[i] : i \in 1..MaxRelPosts})
    \/ LoadAdditionalData

SpecRelated == InitRelated /\ [][NextRelated]_vars

\* the page of the one published post has been rendered for a visitor
ThePost == CHOOSE row \in TableOf(<<[category |-> "Marketing", tags |-> {"b2b"},
                                     status |-> "published"]>>) : TRUE

InitView ==
    /\ blogs = {ThePost}
    /\ blog_likes = NoLikes
    /\ blog_comments = {}
    /\ ret = Call("fetchBlogServer", "BlogPostPage", <<ThePost.slug>>, <<"ok">>,
                  mapDbToBlog(ThePost))
    /\ hist = <<>>
    /\ page = [route |-> "blog/[slug]", slug |-> ThePost.slug, outcome |-> "rendered",
               blog |-> mapDbToBlog(ThePost)]
    /\ client = NewClient(mapDbToBlog(ThePost))
    /\ inflight = <<>>

\* one visitor on the post page: fingerprint, like status, like button
NextLikeClient ==
    \/ DeriveFingerprint({"fp_1"})
    \/ LikeStatusEffect
    \/ CheckLikeStatusRead
    \/ LikeStatusThen
    \/ HandleLike
    \/ ToggleLikeRead
    \/ ToggleLikeWrite
    \/ HandleLikeResume

SpecLikeClient == InitView /\ [][NextLikeClient]_vars

\* one visitor on the post page: the comment form
NextCommentClient ==
    \/ SetCommentName({EmptyStr, Blank, PaddedName})
    \/ SetCommentEmail({EmptyStr, Email})
    \/ SetCommentContent({EmptyStr, Hello})
    \/ HandleCommentSubmit
    \/ SubmitCommentInsert
    \/ HandleCommentSubmitResume

SpecCommentClient == InitView /\ [][NextCommentClient]_vars

\* the editor: posts are created and edited
NextEdit ==
    \/ CreatePost({"a"}, {"draft"}, {"Marketing"}, {{"b2b"}}, {EmptyStr, Html, LongRead}, MaxPosts)
    \/ UpdateBlog(PostIds, {[content |-> EmptyStr], [content |-> Html],
                            [content |-> LongRead], [status |-> "published"],
                            [content |-> Hello, status |-> "published"]})

SpecEdit == Init /\ [][NextEdit]_vars

\* the like button and the comment form, with every started backend query
\* answering and every continuation of a settled call running
NextButtons ==
    \/ DeriveFingerprint({"fp_1"})
    \/ HandleLike
    \/ ToggleLikeRead
    \/ ToggleLikeWrite
    \/ HandleLikeResume
    \/ SetCommentName({Name})
    \/ SetCommentContent({Hello})
    \/ HandleCommentSubmit
    \/ SubmitCommentInsert
    \/ HandleCommentSubmitResume

SpecButtonsFair ==
    /\ InitView
    /\ [][NextButtons]_vars
    /\ WF_vars(ToggleLikeRead)
    /\ WF_vars(ToggleLikeWrite)
    /\ WF_vars(HandleLikeResume)
    /\ WF_vars(SubmitCommentInsert)
    /\ WF_vars(HandleCommentSubmitResume)

\* toggleLike calls of several tabs or visitors with one fingerprint, interleaved
NextRace ==
    \/ ToggleLikeStart({1}, {"fp_1"})
    \/ ToggleLikeRead
    \/ ToggleLikeWrite
    \/ ReturnToOther

SpecRace == Init /\ [][NextRace]_vars

(***************************************************************************)
(* Properties.                                                             *)
(***************************************************************************)
IsLookup == ret.op \in {"getBlogBySlug", "fetchBlogServer"}
\* the published posts whose slug is exactly s
PublishedWithSlug(s) == {p \in blogs : p.slug = s /\ p.status = "published"}
\* the lookup returned post p (fetchBlogServer returns it in its mapped form)
Returned(p) == ret.result = (IF ret.op = "fetchBlogServer" THEN mapDbToBlog(p) ELSE p)

\* C1, as claimed: the slug lookup returns p if and only if p.slug = s exactly
\* and p is published; it returns null when no such post exists.
C1_LookupIffPublishedMatch ==
    IsLookup =>
        /\ \A p \in blogs : Returned(p) <=> (p \in PublishedWithSlug(ret.args[1]))
        /\ (PublishedWithSlug(ret.args[1]) = {} => ret.result = Null)

\* C1, amended: when the backend query succeeds, the slug lookup returns p if
\* and only if p is the one published post whose slug is exactly s; when the
\* query fails, or no or several published posts have that slug, it returns
\* null; what it returns is never a draft.
C1_LookupIffOnlyPublishedMatch ==
    IsLookup =>
        LET M == PublishedWithSlug(ret.args[1])
        IN /\ ret.modes = <<"ok">> => \A p \in blogs : Returned(p) <=> (M = {p})
           /\ (ret.modes # <<"ok">> \/ Cardinality(M) # 1) => ret.result = Null
           /\ ret.result # Null => \E p \in M : Returned(p)

C1_Witness ==
    /\ ret.op = "getBlogBySlug"
    /\ ret.modes = <<"ok">>
    /\ \E p \in blogs : ret.result = p /\ p.slug = "a"
    /\ \E q \in blogs : q.status = "draft" /\ q.slug = "A"

\* C2, as claimed: two successful toggleLike calls for one pair, run back to
\* back, leave the liked state of the pair and the number of Like rows of the
\* post as they were before the first call.
C2_ToggleTwiceRestores ==
    (Len(hist) = 2 /\ hist[1].ok /\ hist[2].ok) =>
        /\ Liked(blog_likes, hist[2].blog_id, hist[2].user_fingerprint) = hist[1].liked
        /\ LikeRowCount(blog_likes, hist[2].blog_id) = hist[1].count

\* C3, as claimed: a successful toggleLike returns the resulting liked flag
\* and the recomputed number of Like rows of the post.
C3_ToggleReturnsLikedAndCount ==
    (ret.op = "toggleLike" /\ ret.modes = <<"ok", "ok">>) =>
        ret.result = [liked |-> Liked(blog_likes, ret.args[1], ret.args[2]),
                      count |-> LikeRowCount(blog_likes, ret.args[1])]

\* C4, as claimed: the stored likes_count of every post equals the number of
\* Like rows of the post.
C4_LikesCountMatchesRows ==
    \A p \in blogs : p.id \in PostIds => p.likes_count = LikeRowCount(blog_likes, p.id)

\* a failure result of submitComment
IsFailure(v) == v = Null \/ ("success" \in DOMAIN v /\ v.success = FALSE)
\* name or content empty after trimming, or content longer than the limit
InvalidComment(userName, content) ==
    \/ trim(userName) = EmptyStr
    \/ trim(content) = EmptyStr
    \/ length(content) > MaxCommentLength

\* C5, as claimed: submitComment with a name or content that is empty after
\* trimming, or with content longer than 1000 characters, returns a failure
\* and inserts no row.
C5_InvalidCommentRejected ==
    [][(ret'.op = "submitComment" /\ InvalidComment(ret'.args[2], ret'.args[4]))
          => (IsFailure(ret'.result) /\ blog_comments' = blog_comments)]_vars

\* the approved comments of a post
Approved(blogId) == {c \in blog_comments : c.blog_id = blogId /\ c.status = "approved"}
\* list holds exactly the rows of set, each once, newest first
ExactlyNewestFirst(list, set) ==
    /\ {list[i] : i \in 1..Len(list)} = set
    /\ Len(list) = Cardinality(set)
    /\ \A i, j \in 1..Len(list) : i < j => list[i].created_at > list[j].created_at

\* C6, as claimed: fetchComments returns exactly the approved comments of the
\* post, newest first, and that is the list the client shows.
C6_FetchCommentsExactlyApproved ==
    ret.op = "fetchComments" =>
        /\ ExactlyNewestFirst(ret.result, Approved(ret.args[1]))
        /\ ret.by = "BlogPostClient" => client.comments = ret.result

\* C6, amended: when the backend query succeeds, fetchComments returns exactly
\* the approved comments of the post, newest first; when it fails it returns
\* the empty list; in both cases no pending or rejected comment is in the
\* result, and the client shows the list it got.
C6_FetchCommentsApprovedIfOk ==
    ret.op = "fetchComments" =>
        /\ ret.modes = <<"ok">> => ExactlyNewestFirst(ret.result, Approved(ret.args[1]))
        /\ ret.modes # <<"ok">> => ret.result = <<>>
        /\ \A i \in 1..Len(ret.result) : ret.result[i] \in Approved(ret.args[1])
        /\ ret.by = "BlogPostClient" => client.comments = ret.result

C6_Witness ==
    /\ ret.op = "fetchComments"
    /\ ret.by = "BlogPostClient"
    /\ ret.modes = <<"ok">>
    /\ Len(client.comments) = 1
    /\ \E c \in blog_comments : c.blog_id = client.blog.id /\ c.status # "approved"

\* the places of allBlogs holding a post other than blog that shares its
\* category or one of its tags
RelatedPlaces(blog, allBlogs) ==
    {i \in 1..Len(allBlogs) :
        /\ allBlogs[i].id # blog.id
        /\ \/ allBlogs[i].category = blog.category
           \/ allBlogs[i].tags \cap blog.tags # {}}

ClientLoaded == client.mounted /\ ~client.isLoading

\* C7: the related posts are the first min(3, n) of the n related posts of
\* allPublished, in the order of allPublished.
C7_RelatedFirstThreeInOrder ==
    ClientLoaded =>
        LET all == client.allBlogs
            rel == client.relatedBlogs
            M == RelatedPlaces(client.blog, all)
        IN /\ Len(rel) = (IF Cardinality(M) < RelatedLimit THEN Cardinality(M) ELSE RelatedLimit)
           /\ \A k \in 1..Len(rel) :
                \E i \in M : rel[k] = all[i] /\ Cardinality({j \in M : j < i}) = k - 1

C7_Witness ==
    /\ ClientLoaded
    /\ Len(client.relatedBlogs) = RelatedLimit
    /\ Cardinality(RelatedPlaces(client.blog, client.allBlogs)) > RelatedLimit
    /\ \E i \in 1..Len(client.allBlogs) : client.allBlogs[i].id = client.blog.id

StoreCalls == {"submitComment", "fetchComments", "toggleLike", "checkLikeStatus"}

\* C8: a step of submitComment, fetchComments, toggleLike or checkLikeStatus
\* leaves no approved comment that was not there before, and every row
\* submitComment inserts is pending.
C8_NeverAutoApproves ==
    [][ret'.op \in StoreCalls =>
          /\ \A c \in blog_comments' : c.status = "approved" => c \in blog_comments
          /\ \A c \in blog_comments' \ blog_comments : c.status = "pending"]_vars

C8_Witness ==
    /\ ret.op = "submitComment"
    /\ ret.result \in blog_comments
    /\ ret.result.status = "pending"
    /\ \E c \in blog_comments : c.status = "approved"

DataAccessCalls ==
    {"getBlogBySlug", "fetchBlogServer", "getAllPublishedBlogs", "fetchComments",
     "submitComment", "toggleLike", "checkLikeStatus"}

\* C9, as claimed: a data-access call that met a backend failure returns null,
\* the empty list or false, and no exception.
C9_FailureGivesBenignResult ==
    (ret.op \in DataAccessCalls /\ \E i \in 1..Len(ret.modes) : ret.modes[i] # "ok") =>
        \/ ret.result = Null
        \/ ret.result = <<>>
        \/ ret.result = JsBool(FALSE)

IsPageRequest == ret.by \in {"BlogPostPage", "BlogPost"}

\* C10: a post-detail page ends in not-found when no published post has the
\* slug or when the lookup fails, and what it renders is a published post
\* with that slug.
C10_PageNotFoundUnlessPublished ==
    IsPageRequest =>
        LET M == PublishedWithSlug(page.slug)
        IN /\ page.outcome \in {"notFound", "rendered"}
           /\ (M = {} \/ ret.modes # <<"ok">>) => page.outcome = "notFound"
           /\ page.outcome = "rendered" =>
                /\ page.blog.status = "published"
                /\ \E p \in M : p.id = page.blog.id

C10_Witness ==
    /\ ret.by = "BlogPostPage"
    /\ ret.modes = <<"ok">>
    /\ page.outcome = "notFound"
    /\ \E p \in blogs : p.slug = page.slug /\ p.status = "draft"

\* C11: under any interleaving of toggleLike calls, each an existence read
\* followed by a separate insert or delete, blog_likes never holds more than
\* one Like row for the same (post, fingerprint) pair.
C11_AtMostOneLikeRowPerPair ==
    \A k \in DOMAIN blog_likes : blog_likes[k] <= 1

\* C12: in one BlogPostClient instance at most one toggleLike call is in
\* flight at any time, whatever the sequence of clicks; a like action issued
\* while a toggleLike call is pending starts no call.
C12_OneToggleInFlight ==
    /\ [](Cardinality(ClientCalls("toggleLike")) <= 1)
    /\ [][(ret'.op = "handleLike" /\ ClientCalls("toggleLike") # {})
             => (inflight' = inflight /\ client' = client)]_vars

\* a click arrives while the toggleLike call of the instance is pending
C12_Witness ==
    /\ ret.op = "handleLike"
    /\ client.isLiking
    /\ \E i \in ClientCalls("toggleLike") : inflight[i].step = "write"

\* C13: when a like action of BlogPostClient completes, hasLiked is true
\* exactly when a Like row for (post, fingerprint) now exists and likesCount is
\* the post's current like count; neither changes before the response arrives.
C13_LikeResultReplacesLocalState ==
    /\ [][(ret'.op = "toggleLike" /\ ret'.by = "BlogPostClient")
             => /\ client'.hasLiked =
                      JsBool(Liked(blog_likes', ret'.args[1], ret'.args[2]))
                /\ client'.likesCount = JsNum(LikeRowCount(blog_likes', ret'.args[1]))]_vars
    /\ [][(ret'.op = "handleLike" \/ ret'.op = "select blog_likes"
                \/ ret'.op = "write blog_likes")
             => /\ client'.hasLiked = client.hasLiked
                /\ client'.likesCount = client.likesCount]_vars

\* C16: no checkLikeStatus or toggleLike call is ever issued with an empty
\* fingerprint, and a like action before the fingerprint is derived changes no
\* view state and starts no call.
C16_NoCallWithEmptyFingerprint ==
    /\ [](\A i \in 1..Len(inflight) :
             (inflight[i].op = "checkLikeStatus" \/ inflight[i].op = "toggleLike")
                => inflight[i].args[2] # "")
    /\ [][(ret'.op = "handleLike" /\ client.fingerprint = "")
             => (client' = client /\ inflight' = inflight)]_vars

\* the like-status effect has run with the empty fingerprint, and the visitor
\* clicked before the fingerprint was derived
C16_Witness ==
    /\ ret.op = "handleLike"
    /\ client.fingerprint = ""
    /\ client.likeStatusDeps = <<"">>

\* C18: in every view state of BlogPostClient likesCount is a non-negative
\* integer and hasLiked is a boolean.
C18_LikeStateWellTyped ==
    client.mounted =>
        /\ client.hasLiked.type = "boolean"
        /\ client.likesCount.type = "number"
        /\ IF client.likesCount.type = "number" THEN client.likesCount.value >= 0 ELSE FALSE

C14_FormFollowsStoreOutcome ==
    [][(ret'.op = "handleCommentSubmit" /\ ret'.by = "BlogPostClient")
         => IF ret'.result # Null
            THEN /\ client'.commentName = EmptyStr
                 /\ client'.commentEmail = EmptyStr
                 /\ client'.commentContent = EmptyStr
                 /\ client'.commentMessage.type = "success"
            ELSE /\ client'.commentName = client.commentName
                 /\ client'.commentEmail = client.commentEmail
                 /\ client'.commentContent = client.commentContent
                 /\ client'.commentMessage.type = "error"]_vars

\* C17: the Comment row created by a submission from BlogPostClient stores the
\* trimmed comment text in content, the trimmed name in user_name and the
\* email, or no email, in user_email.
C17_CommentColumns ==
    [][(ret'.op = "submitComment" /\ ret'.by = "client" /\ ret'.result # Null)
         => /\ ret'.result \in blog_comments'
            /\ ret'.result.user_name = ret'.args[2]
            /\ ret'.result.content = ret'.args[3]
            /\ ret'.result.user_email = ret'.args[4]]_vars

\* C20: provided every backend call resolves, every like action that set
\* isLiking and every comment submission that set isSubmitting is eventually
\* followed by a state in which that flag is false again.
C20_FlagsEventuallyReset ==
    /\ client.isLiking ~> ~client.isLiking
    /\ client.isSubmitting ~> ~client.isSubmitting

\* C15: after any updateBlog call that changes a post's content, the post's
\* stored word_count and reading_time equal calculateReadingStats of the new
\* content, also when the new content is the empty string.
C15_StatsFollowContent ==
    [][ret'.op = "updateBlog"
         => \A p \in blogs, q \in blogs' :
               (p.id = q.id /\ q.content # p.content)
                  => /\ q.word_count = calculateReadingStats(q.content).wordCount
                     /\ q.reading_time = calculateReadingStats(q.content).readingTime]_vars

====
